---- MODULE Spec2Model ----
(***************************************************************************)
(* Model of market/data.go: the indicator engine (calculateEMA,            *)
(* calculateMACD, calculateRSI, calculateATR), the series samplers         *)
(* (calculateIntradaySeries, calculateLongerTermData) and the snapshot     *)
(* aggregator GetWithInterval with its four fetches.                       *)
(*                                                                         *)
(* Numbers.  Go's int is modelled by TLA+ integers, with Go's truncating   *)
(* division (GoDiv).  Go's float64 is modelled by fixed-point decimals: a  *)
(* float x is the integer x * SCALE, a product or quotient is rounded      *)
(* toward minus infinity to a multiple of 1/SCALE (FMul, FDiv).  Sums,     *)
(* differences, comparisons and the values 0, 100 and every integer are    *)
(* exact.  Indices are the source's 0-based indices; a Go slice is a TLA+  *)
(* sequence, klines[i] is K(klines, i).                                    *)
(*                                                                         *)
(* Strings that the code formats (the error messages) are sequences of     *)
(* characters, one string per character; a non-ASCII character is written  *)
(* as its code point ("U83B7").                                            *)
(*                                                                         *)
(* Not modelled: Normalize and the Symbol field, Format/formatFloatSlice,  *)
(* the HTTP and JSON decoding inside the fetches (a fetch is its reply).   *)
(***************************************************************************)
EXTENDS Integers, Sequences, FiniteSets, TLC

VARIABLES
    pc,                  \* position inside GetWithInterval
    scanIntervalMinutes, \* its argument
    interval,            \* local: label chosen by selectInterval
    intradayLimit,       \* local: number of intraday candles requested
    klinesIntraday,      \* local: reply of the first getKlines
    klines4h,            \* local: reply of the second getKlines
    cur,                 \* locals of lines 92-116 (current scalars, price changes)
    oiData,              \* local
    fundingRate,         \* local
    io,                  \* what each fetch did: "none", "ok" or "err"
    ret,                 \* what GetWithInterval returned: [data, err]
    fnIn,                \* input of a direct call of an indicator function
    fnOut                \* its result

vars == <<pc, scanIntervalMinutes, interval, intradayLimit, klinesIntraday,
          klines4h, cur, oiData, fundingRate, io, ret, fnIn, fnOut>>

getVars == <<pc, scanIntervalMinutes, interval, intradayLimit, klinesIntraday,
             klines4h, cur, oiData, fundingRate, io, ret>>

fnVars == <<fnIn, fnOut>>

-----------------------------------------------------------------------------
(* Bounds of the model *)

\* longest candle sequence a fetch returns
MaxLen == 36

\* longest ramp a fetch returns
MaxRamp == 8

\* longest sequence of the exhaustively enumerated short inputs
MaxShort == 4

\* largest period of a direct call on a short input
MaxPeriod == 3

-----------------------------------------------------------------------------
(* float64 and int arithmetic *)

SCALE == 10 * 10 * 10

\* x is a float64 of the model: a number.  No NaN or infinity arises, every
\* division of the code being by a positive number.  The loops below state it
\* of each iteration's result, which also has TLC evaluate the result before
\* the next iteration instead of nesting one pending evaluation per candle.
IsFloat(x) == x \in Int

\* float64(n) for an integer n
F(n) == n * SCALE

\* a * b on float64; b >= 0
FMul(a, b) == (a \div SCALE) * b + ((a % SCALE) * b) \div SCALE

\* a / b on float64; b > 0
FDiv(a, b) == (a \div b) * SCALE + ((a % b) * SCALE) \div b

\* math.Abs
Abs(x) == IF x < 0 THEN -x ELSE x

\* math.Max
Max(a, b) == IF a > b THEN a ELSE b

\* Go's a / b on int, b # 0: the quotient truncated toward zero
GoDiv(a, b) ==
    LET q == Abs(a) \div Abs(b)
    IN  IF (a < 0) = (b < 0) THEN q ELSE -q

-----------------------------------------------------------------------------
(* Candles *)

Kline(open, high, low, close, volume) ==
    [Open |-> open, High |-> high, Low |-> low, Close |-> close, Volume |-> volume]

\* klines[i], i 0-based; the zero Kline where i is out of range (no caller
\* below reads out of range: every read is under the source's guard)
K(klines, i) ==
    IF i + 1 \in DOMAIN klines THEN klines[i + 1] ELSE Kline(0, 0, 0, 0, 0)

\* klines[:n]
Prefix(klines, n) == SubSeq(klines, 1, n)

-----------------------------------------------------------------------------
(* Indicator engine *)

RECURSIVE emaSum(_, _, _, _)
\* lines 237-240: sum of klines[i].Close for i < period
emaSum(klines, i, period, sum) ==
    IF i < period
    THEN LET next == sum + K(klines, i).Close
         IN  CASE IsFloat(next) -> emaSum(klines, i + 1, period, next)
    ELSE sum

RECURSIVE emaLoop(_, _, _, _)
\* lines 245-247
emaLoop(klines, i, multiplier, ema) ==
    IF i < Len(klines)
    THEN LET next == FMul(K(klines, i).Close - ema, multiplier) + ema
         IN  CASE IsFloat(next) -> emaLoop(klines, i + 1, multiplier, next)
    ELSE ema

calculateEMA(klines, period) ==
    IF Len(klines) < period
    THEN 0
    ELSE emaLoop(klines, period, FDiv(F(2), F(period + 1)),
                 FDiv(emaSum(klines, 0, period, 0), F(period)))

\* the indices calculateEMA reads
calculateEMA_reads(klines, period) ==
    IF Len(klines) < period
    THEN {}
    ELSE (0 .. period - 1) \cup (period .. Len(klines) - 1)

calculateMACD(klines) ==
    IF Len(klines) < 26
    THEN 0
    ELSE calculateEMA(klines, 12) - calculateEMA(klines, 26)

calculateMACD_reads(klines) ==
    IF Len(klines) < 26
    THEN {}
    ELSE calculateEMA_reads(klines, 12) \cup calculateEMA_reads(klines, 26)

RECURSIVE rsiSeed(_, _, _, _)
\* lines 276-283: acc = <<gains, losses>>
rsiSeed(klines, i, period, acc) ==
    IF i <= period
    THEN LET change == K(klines, i).Close - K(klines, i - 1).Close
             next == IF change > 0
                     THEN <<acc[1] + change, acc[2]>>
                     ELSE <<acc[1], acc[2] + (-change)>>
         IN  CASE IsFloat(next[1]) /\ IsFloat(next[2]) ->
                     rsiSeed(klines, i + 1, period, next)
    ELSE acc

RECURSIVE rsiSmooth(_, _, _, _)
\* lines 289-298: avg = <<avgGain, avgLoss>>
rsiSmooth(klines, i, period, avg) ==
    IF i < Len(klines)
    THEN LET change == K(klines, i).Close - K(klines, i - 1).Close
             next ==
                 IF change > 0
                 THEN <<FDiv(FMul(avg[1], F(period - 1)) + change, F(period)),
                        FDiv(FMul(avg[2], F(period - 1)), F(period))>>
                 ELSE <<FDiv(FMul(avg[1], F(period - 1)), F(period)),
                        FDiv(FMul(avg[2], F(period - 1)) + (-change), F(period))>>
         IN  CASE IsFloat(next[1]) /\ IsFloat(next[2]) ->
                     rsiSmooth(klines, i + 1, period, next)
    ELSE avg

\* mutant: line 301 returning 0 where no loss was seen
rsiBody_ZeroWithoutLoss(klines, period) ==
    LET seed == rsiSeed(klines, 1, period, <<0, 0>>)
        avg  == rsiSmooth(klines, period + 1, period,
                          <<FDiv(seed[1], F(period)), FDiv(seed[2], F(period))>>)
    IN  IF avg[2] = 0
        THEN 0
        ELSE F(100) - FDiv(F(100), F(1) + FDiv(avg[1], avg[2]))

\* lines 272-307
rsiBody(klines, period) ==
    LET seed == rsiSeed(klines, 1, period, <<0, 0>>)
        avg  == rsiSmooth(klines, period + 1, period,
                          <<FDiv(seed[1], F(period)), FDiv(seed[2], F(period))>>)
    IN  IF avg[2] = 0
        THEN F(100)
        ELSE F(100) - FDiv(F(100), F(1) + FDiv(avg[1], avg[2]))

\* mutant: the guard of line 268 written with < for <=
calculateRSI_OffByOne(klines, period) ==
    IF Len(klines) < period THEN 0 ELSE rsiBody(klines, period)

calculateRSI(klines, period) ==
    IF Len(klines) <= period THEN 0 ELSE rsiBody(klines, period)

calculateRSI_reads(klines, period) ==
    IF Len(klines) <= period
    THEN {}
    ELSE UNION {{i, i - 1} : i \in 1 .. period}
         \cup UNION {{i, i - 1} : i \in period + 1 .. Len(klines) - 1}

\* lines 318-326: trs[i], i >= 1
trueRange(klines, i) ==
    LET high == K(klines, i).High
        low  == K(klines, i).Low
        prevClose == K(klines, i - 1).Close
    IN  Max(high - low, Max(Abs(high - prevClose), Abs(low - prevClose)))

RECURSIVE atrSum(_, _, _, _)
\* lines 330-333
atrSum(klines, i, period, sum) ==
    IF i <= period
    THEN LET next == sum + trueRange(klines, i)
         IN  CASE IsFloat(next) -> atrSum(klines, i + 1, period, next)
    ELSE sum

RECURSIVE atrSmooth(_, _, _, _)
\* lines 337-339
atrSmooth(klines, i, period, atr) ==
    IF i < Len(klines)
    THEN LET next == FDiv(FMul(atr, F(period - 1)) + trueRange(klines, i),
                          F(period))
         IN  CASE IsFloat(next) -> atrSmooth(klines, i + 1, period, next)
    ELSE atr

calculateATR(klines, period) ==
    IF Len(klines) <= period
    THEN 0
    ELSE atrSmooth(klines, period + 1, period,
                   FDiv(atrSum(klines, 1, period, 0), F(period)))

calculateATR_reads(klines, period) ==
    IF Len(klines) <= period
    THEN {}
    ELSE UNION {{i, i - 1} : i \in 1 .. Len(klines) - 1}

-----------------------------------------------------------------------------
(* Series samplers *)

\* lines 355-358 and 416-419
windowStart(klines) ==
    IF Len(klines) - 10 < 0 THEN 0 ELSE Len(klines) - 10

emptyIntradayData ==
    [MidPrices |-> <<>>, EMA20Values |-> <<>>, MACDValues |-> <<>>,
     RSI7Values |-> <<>>, RSI14Values |-> <<>>, Interval |-> ""]

\* mutant: the RSI7 series of line 376 gated at i >= 6
intradayStep_RSI7AtSix(klines, i, data) ==
    [data EXCEPT
       !.MidPrices   = Append(@, K(klines, i).Close),
       !.EMA20Values = IF i >= 19
                       THEN Append(@, calculateEMA(Prefix(klines, i + 1), 20))
                       ELSE @,
       !.MACDValues  = IF i >= 25
                       THEN Append(@, calculateMACD(Prefix(klines, i + 1)))
                       ELSE @,
       !.RSI7Values  = IF i >= 6
                       THEN Append(@, calculateRSI(Prefix(klines, i + 1), 7))
                       ELSE @,
       !.RSI14Values = IF i >= 14
                       THEN Append(@, calculateRSI(Prefix(klines, i + 1), 14))
                       ELSE @]

\* lines 361-383: one iteration of the loop of calculateIntradaySeries
intradayStep(klines, i, data) ==
    [data EXCEPT
       !.MidPrices   = Append(@, K(klines, i).Close),
       !.EMA20Values = IF i >= 19
                       THEN Append(@, calculateEMA(Prefix(klines, i + 1), 20))
                       ELSE @,
       !.MACDValues  = IF i >= 25
                       THEN Append(@, calculateMACD(Prefix(klines, i + 1)))
                       ELSE @,
       !.RSI7Values  = IF i >= 7
                       THEN Append(@, calculateRSI(Prefix(klines, i + 1), 7))
                       ELSE @,
       !.RSI14Values = IF i >= 14
                       THEN Append(@, calculateRSI(Prefix(klines, i + 1), 14))
                       ELSE @]

RECURSIVE intradayLoop(_, _, _)
\* line 360
intradayLoop(klines, i, data) ==
    IF i < Len(klines)
    THEN intradayLoop(klines, i + 1, intradayStep(klines, i, data))
    ELSE data

\* mutant: the loop of line 360 stopping before the latest candle
calculateIntradaySeries_SkipsLatest(klines) ==
    intradayLoop(Prefix(klines, Len(klines) - 1), windowStart(klines),
                 emptyIntradayData)

\* lines 345-387
calculateIntradaySeries(klines) ==
    intradayLoop(klines, windowStart(klines), emptyIntradayData)

RECURSIVE volumeSum(_, _, _)
\* lines 408-411
volumeSum(klines, i, sum) ==
    IF i < Len(klines)
    THEN LET next == sum + K(klines, i).Volume
         IN  CASE IsFloat(next) -> volumeSum(klines, i + 1, next)
    ELSE sum

\* lines 422-429: one iteration of the loop of calculateLongerTermData
longerTermStep(klines, i, data) ==
    [data EXCEPT
       !.MACDValues  = IF i >= 25
                       THEN Append(@, calculateMACD(Prefix(klines, i + 1)))
                       ELSE @,
       !.RSI14Values = IF i >= 14
                       THEN Append(@, calculateRSI(Prefix(klines, i + 1), 14))
                       ELSE @]

RECURSIVE longerTermLoop(_, _, _)
\* line 421
longerTermLoop(klines, i, data) ==
    IF i < Len(klines)
    THEN longerTermLoop(klines, i + 1, longerTermStep(klines, i, data))
    ELSE data

calculateLongerTermData(klines) ==
    longerTermLoop(klines, windowStart(klines),
        [EMA20 |-> calculateEMA(klines, 20),
         EMA50 |-> calculateEMA(klines, 50),
         ATR3  |-> calculateATR(klines, 3),
         ATR14 |-> calculateATR(klines, 14),
         CurrentVolume |-> IF Len(klines) > 0
                           THEN K(klines, Len(klines) - 1).Volume ELSE 0,
         AverageVolume |-> IF Len(klines) > 0
                           THEN FDiv(volumeSum(klines, 0, 0), F(Len(klines)))
                           ELSE 0,
         MACDValues  |-> <<>>,
         RSI14Values |-> <<>>])

-----------------------------------------------------------------------------
(* Snapshot aggregator: the pure parts of GetWithInterval *)

selectInterval(scan) ==
    CASE scan <= 1  -> "1m"
      [] scan <= 3  -> "3m"
      [] scan <= 5  -> "5m"
      [] scan <= 15 -> "15m"
      [] scan <= 30 -> "30m"
      [] OTHER      -> "1h"

\* line 178 divides by scanIntervalMinutes: a runtime panic when it is 0
calculateIntradayLimit_panics(scan) == scan = 0

\* scan # 0
calculateIntradayLimit(scan) ==
    LET barsFor2Hours == GoDiv(120, scan)
    IN  IF barsFor2Hours < 40 THEN 40 ELSE barsFor2Hours

\* ((currentPrice - past) / past) * 100, lines 105 and 114; past > 0
pctChange(currentPrice, past) ==
    FMul(FDiv(currentPrice - past, past), F(100))

\* line 100; scan # 0
barsFor1h(scan) == GoDiv(60, scan)

\* lines 92 and 102-103: the reads of klinesIntraday that are out of range
compute_panics(klines, scan) ==
    \/ Len(klines) - 1 \notin 0 .. Len(klines) - 1
    \/ /\ Len(klines) >= barsFor1h(scan) + 1
       /\ Len(klines) - barsFor1h(scan) - 1 \notin 0 .. Len(klines) - 1

\* mutant: line 103 looking back one candle too few
priceChange1h_OffByOne(klines, scan, currentPrice) ==
    IF Len(klines) >= barsFor1h(scan) + 1
    THEN LET price1hAgo == K(klines, Len(klines) - barsFor1h(scan)).Close
         IN  IF price1hAgo > 0 THEN pctChange(currentPrice, price1hAgo) ELSE 0
    ELSE 0

\* lines 101-107
priceChange1h(klines, scan, currentPrice) ==
    IF Len(klines) >= barsFor1h(scan) + 1
    THEN LET price1hAgo == K(klines, Len(klines) - barsFor1h(scan) - 1).Close
         IN  IF price1hAgo > 0 THEN pctChange(currentPrice, price1hAgo) ELSE 0
    ELSE 0

\* mutant: line 112 reading the latest 4h candle
priceChange4h_LatestCandle(klines, currentPrice) ==
    IF Len(klines) >= 2
    THEN LET price4hAgo == K(klines, Len(klines) - 1).Close
         IN  IF price4hAgo > 0 THEN pctChange(currentPrice, price4hAgo) ELSE 0
    ELSE 0

\* lines 110-116
priceChange4h(klines, currentPrice) ==
    IF Len(klines) >= 2
    THEN LET price4hAgo == K(klines, Len(klines) - 2).Close
         IN  IF price4hAgo > 0 THEN pctChange(currentPrice, price4hAgo) ELSE 0
    ELSE 0

\* lines 92-116
currentScalars(kIntraday, k4h, scan) ==
    LET currentPrice == K(kIntraday, Len(kIntraday) - 1).Close
    IN  [currentPrice  |-> currentPrice,
         currentEMA20  |-> calculateEMA(kIntraday, 20),
         currentMACD   |-> calculateMACD(kIntraday),
         currentRSI7   |-> calculateRSI(kIntraday, 7),
         priceChange1h |-> priceChange1h(kIntraday, scan, currentPrice),
         priceChange4h |-> priceChange4h(k4h, currentPrice)]

noScalars ==
    [currentPrice |-> 0, currentEMA20 |-> 0, currentMACD |-> 0,
     currentRSI7 |-> 0, priceChange1h |-> 0, priceChange4h |-> 0]

\* lines 129-147: the returned Data
assemble(c, oi, rate, kIntraday, k4h, label) ==
    [CurrentPrice      |-> c.currentPrice,
     PriceChange1h     |-> c.priceChange1h,
     PriceChange4h     |-> c.priceChange4h,
     CurrentEMA20      |-> c.currentEMA20,
     CurrentMACD       |-> c.currentMACD,
     CurrentRSI7       |-> c.currentRSI7,
     OpenInterest      |-> oi,
     FundingRate       |-> rate,
     IntradaySeries    |-> [calculateIntradaySeries(kIntraday)
                               EXCEPT !.Interval = label],
     LongerTermContext |-> calculateLongerTermData(k4h)]

-----------------------------------------------------------------------------
(* Error messages *)

\* the characters of an interval label
chars(label) ==
    CASE label = "1m"  -> <<"1", "m">>
      [] label = "3m"  -> <<"3", "m">>
      [] label = "5m"  -> <<"5", "m">>
      [] label = "15m" -> <<"1", "5", "m">>
      [] label = "30m" -> <<"3", "0", "m">>
      [] label = "1h"  -> <<"1", "h">>

\* line 88: fmt.Errorf("<U83B7><U53D6>4<U5C0F><U65F6>K<U7EBF><U5931><U8D25>: %v", err)
err4h(err) ==
    <<"U83B7", "U53D6", "4", "U5C0F", "U65F6", "K", "U7EBF", "U5931", "U8D25",
      ":", " ">> \o err

\* mutant: line 82 formatted with the message of line 88
errIntraday_As4h(label, err) == err4h(err)

\* line 82: fmt.Errorf("<U83B7><U53D6>%s K<U7EBF><U5931><U8D25>: %v", interval, err)
errIntraday(label, err) ==
    <<"U83B7", "U53D6">> \o chars(label)
        \o <<" ", "K", "U7EBF", "U5931", "U8D25", ":", " ">> \o err

-----------------------------------------------------------------------------
(* Inputs: what the exchange may reply *)

Shapes == {"ramp", "jump", "zigzag"}

\* close of candle i (0-based) of an n-candle sequence
\*   ramp:   -2, -1, 0, 1, 2, ...      (non-positive closes, then rising)
\*   jump:   100, ..., 100, 110        (flat, the latest candle 10% up)
\*   zigzag: 50, 52, 54, 51, 53, 50, ... (gains and losses)
closeOf(shape, i, n) ==
    CASE shape = "ramp"   -> F(i - 2)
      [] shape = "jump"   -> IF i = n - 1 THEN F(110) ELSE F(100)
      [] shape = "zigzag" -> F(50 + ((i * 7) % 5))

Gen(shape, n) ==
    [j \in 1 .. n |->
        LET c == closeOf(shape, j - 1, n)
        IN  Kline(c, c + F(1) + 250 * (j % 3), c - F(1), c, F(10 + (j % 4)))]

\* replies of the intraday getKlines: every length for zigzag, the short
\* ramps (their closes are <= 0 up to the third candle), and the jumps of 2
\* and of 21 candles
IntradayReplies ==
    {Gen("zigzag", n) : n \in 0 .. MaxLen}
        \cup {Gen("ramp", n) : n \in 1 .. MaxRamp}
        \cup {Gen("jump", n) : n \in {2, 21}}

\* replies of the 4h getKlines
H4Replies ==
    {Gen("ramp", n) : n \in 0 .. 2}
        \cup {Gen("jump", 2), Gen("zigzag", MaxLen)}

\* arguments of GetWithInterval
ScanValues == {-61, -7, 0, 2, 3, 20, 60}

\* errors of a fetch (err.Error())
FetchErrs == {<<"E", "O", "F">>, <<"4", "h">>}

\* openInterest values the exchange reports
OIValues == {F(8) + 500}

\* lastFundingRate values the exchange reports
FundingValues == {-2}

\* short candle sequences, every one over three closes
ShortCloses == {F(1), F(2), F(3)}

ShortInputs ==
    UNION {[1 .. n -> {Kline(c, c + 500, c - 250, c, F(1)) : c \in ShortCloses}]
               : n \in 0 .. MaxShort}

\* the periods the code calls the indicators with (lines 93, 95, 259, 260,
\* 365, 377, 381, 397, 398, 401, 402, 427)
CodePeriods == {3, 7, 12, 14, 20, 26, 50}

FnInputs ==
    {[klines |-> k, period |-> p] : k \in ShortInputs, p \in 1 .. MaxPeriod}
        \cup {[klines |-> Gen(s, n), period |-> p] :
                 s \in Shapes, n \in 0 .. MaxLen, p \in CodePeriods}

-----------------------------------------------------------------------------
(* GetWithInterval, lines 68-148 *)

Nil == <<>>

noOI == [Latest |-> 0, Average |-> 0]

getIdle ==
    /\ interval = ""
    /\ intradayLimit = 0
    /\ klinesIntraday = <<>>
    /\ klines4h = <<>>
    /\ cur = noScalars
    /\ oiData = noOI
    /\ fundingRate = 0
    /\ io = [intraday |-> "none", h4 |-> "none", oi |-> "none", fr |-> "none"]
    /\ ret = [data |-> Nil, err |-> Nil]

fnIdle ==
    /\ fnIn = [klines |-> <<>>, period |-> 0]
    /\ fnOut = [fn |-> "none"]

Init ==
    /\ pc = "start"
    /\ scanIntervalMinutes \in ScanValues
    /\ getIdle
    /\ fnIdle

\* lines 70-77
Start ==
    /\ pc = "start"
    /\ \/ /\ calculateIntradayLimit_panics(scanIntervalMinutes)
          /\ pc' = "panic"
          /\ interval' = selectInterval(scanIntervalMinutes)
          /\ UNCHANGED intradayLimit
       \/ /\ ~calculateIntradayLimit_panics(scanIntervalMinutes)
          /\ pc' = "getKlinesIntraday"
          /\ interval' = selectInterval(scanIntervalMinutes)
          /\ intradayLimit' = calculateIntradayLimit(scanIntervalMinutes)
    /\ UNCHANGED <<scanIntervalMinutes, klinesIntraday, klines4h, cur, oiData,
                   fundingRate, io, ret, fnVars>>

\* lines 80-83
GetKlinesIntraday ==
    /\ pc = "getKlinesIntraday"
    /\ \/ \E err \in FetchErrs :
            /\ io' = [io EXCEPT !.intraday = "err"]
            /\ ret' = [data |-> Nil, err |-> <<errIntraday(interval, err)>>]
            /\ pc' = "done"
            /\ UNCHANGED klinesIntraday
       \/ \E klines \in IntradayReplies :
            /\ io' = [io EXCEPT !.intraday = "ok"]
            /\ klinesIntraday' = klines
            /\ pc' = "getKlines4h"
            /\ UNCHANGED ret
    /\ UNCHANGED <<scanIntervalMinutes, interval, intradayLimit, klines4h, cur,
                   oiData, fundingRate, fnVars>>

\* lines 86-89
GetKlines4h ==
    /\ pc = "getKlines4h"
    /\ \/ \E err \in FetchErrs :
            /\ io' = [io EXCEPT !.h4 = "err"]
            /\ ret' = [data |-> Nil, err |-> <<err4h(err)>>]
            /\ pc' = "done"
            /\ UNCHANGED klines4h
       \/ \E klines \in H4Replies :
            /\ io' = [io EXCEPT !.h4 = "ok"]
            /\ klines4h' = klines
            /\ pc' = "compute"
            /\ UNCHANGED ret
    /\ UNCHANGED <<scanIntervalMinutes, interval, intradayLimit, klinesIntraday,
                   cur, oiData, fundingRate, fnVars>>

\* lines 92-116
Compute ==
    /\ pc = "compute"
    /\ \/ /\ compute_panics(klinesIntraday, scanIntervalMinutes)
          /\ pc' = "panic"
          /\ UNCHANGED cur
       \/ /\ ~compute_panics(klinesIntraday, scanIntervalMinutes)
          /\ cur' = currentScalars(klinesIntraday, klines4h, scanIntervalMinutes)
          /\ pc' = "getOpenInterestData"
    /\ UNCHANGED <<scanIntervalMinutes, interval, intradayLimit, klinesIntraday,
                   klines4h, oiData, fundingRate, io, ret, fnVars>>

\* getOpenInterestData's result for openInterest = oi, lines 460-465
openInterestOf(oi) == [Latest |-> oi, Average |-> FMul(oi, 999)]

\* mutant: a failed open-interest fetch returned to the caller
GetOpenInterestData_Aborts ==
    /\ pc = "getOpenInterestData"
    /\ \/ \E err \in FetchErrs :
            /\ io' = [io EXCEPT !.oi = "err"]
            /\ ret' = [data |-> Nil, err |-> <<err>>]
            /\ pc' = "done"
            /\ UNCHANGED oiData
       \/ \E oi \in OIValues :
            /\ io' = [io EXCEPT !.oi = "ok"]
            /\ oiData' = openInterestOf(oi)
            /\ pc' = "getFundingRate"
            /\ UNCHANGED ret
    /\ UNCHANGED <<scanIntervalMinutes, interval, intradayLimit, klinesIntraday,
                   klines4h, cur, fundingRate, fnVars>>

\* lines 119-123
GetOpenInterestData ==
    /\ pc = "getOpenInterestData"
    /\ \/ /\ io' = [io EXCEPT !.oi = "err"]
          /\ oiData' = [Latest |-> 0, Average |-> 0]
       \/ \E oi \in OIValues :
            /\ io' = [io EXCEPT !.oi = "ok"]
            /\ oiData' = openInterestOf(oi)
    /\ pc' = "getFundingRate"
    /\ UNCHANGED <<scanIntervalMinutes, interval, intradayLimit, klinesIntraday,
                   klines4h, cur, fundingRate, ret, fnVars>>

\* line 126: getFundingRate returns (0, err) or (rate, nil), lines 472-498
GetFundingRate ==
    /\ pc = "getFundingRate"
    /\ \/ /\ io' = [io EXCEPT !.fr = "err"]
          /\ fundingRate' = 0
       \/ \E rate \in FundingValues :
            /\ io' = [io EXCEPT !.fr = "ok"]
            /\ fundingRate' = rate
    /\ pc' = "assemble"
    /\ UNCHANGED <<scanIntervalMinutes, interval, intradayLimit, klinesIntraday,
                   klines4h, cur, oiData, ret, fnVars>>

\* lines 129-147
Assemble ==
    /\ pc = "assemble"
    /\ ret' = [data |-> <<assemble(cur, oiData, fundingRate, klinesIntraday,
                                   klines4h, interval)>>,
               err  |-> Nil]
    /\ pc' = "done"
    /\ UNCHANGED <<scanIntervalMinutes, interval, intradayLimit, klinesIntraday,
                   klines4h, cur, oiData, fundingRate, io, fnVars>>

Next ==
    \/ Start
    \/ GetKlinesIntraday
    \/ GetKlines4h
    \/ Compute
    \/ GetOpenInterestData
    \/ GetFundingRate
    \/ Assemble

Spec == Init /\ [][Next]_vars

-----------------------------------------------------------------------------
(* Direct calls of the indicator functions and of the samplers *)

FnInit ==
    /\ pc = "off"
    /\ scanIntervalMinutes = 0
    /\ getIdle
    /\ fnIn \in FnInputs
    /\ fnOut = [fn |-> "none"]

CallEMA ==
    /\ fnOut.fn = "none"
    /\ fnOut' = [fn |-> "EMA",
                 val |-> calculateEMA(fnIn.klines, fnIn.period),
                 reads |-> calculateEMA_reads(fnIn.klines, fnIn.period)]
    /\ UNCHANGED <<fnIn, getVars>>

CallMACD ==
    /\ fnOut.fn = "none"
    /\ fnOut' = [fn |-> "MACD",
                 val |-> calculateMACD(fnIn.klines),
                 reads |-> calculateMACD_reads(fnIn.klines)]
    /\ UNCHANGED <<fnIn, getVars>>

CallRSI ==
    /\ fnOut.fn = "none"
    /\ fnOut' = [fn |-> "RSI",
                 val |-> calculateRSI(fnIn.klines, fnIn.period),
                 reads |-> calculateRSI_reads(fnIn.klines, fnIn.period)]
    /\ UNCHANGED <<fnIn, getVars>>

CallATR ==
    /\ fnOut.fn = "none"
    /\ fnOut' = [fn |-> "ATR",
                 val |-> calculateATR(fnIn.klines, fnIn.period),
                 reads |-> calculateATR_reads(fnIn.klines, fnIn.period)]
    /\ UNCHANGED <<fnIn, getVars>>

CallIntradaySeries ==
    /\ fnOut.fn = "none"
    /\ fnOut' = [fn |-> "IntradaySeries",
                 val |-> calculateIntradaySeries(fnIn.klines)]
    /\ UNCHANGED <<fnIn, getVars>>

CallLongerTermData ==
    /\ fnOut.fn = "none"
    /\ fnOut' = [fn |-> "LongerTermData",
                 val |-> calculateLongerTermData(fnIn.klines)]
    /\ UNCHANGED <<fnIn, getVars>>

FnNext ==
    \/ CallEMA
    \/ CallMACD
    \/ CallRSI
    \/ CallATR
    \/ CallIntradaySeries
    \/ CallLongerTermData

FnSpec == FnInit /\ [][FnNext]_vars

-----------------------------------------------------------------------------
(* Properties *)

\* GetWithInterval returned a snapshot
Returned == pc = "done" /\ ret.err = Nil /\ ret.data # Nil

\* the returned snapshot (when Returned)
D == ret.data[1]

\* close of candle i (0-based) of a sequence
CloseAt(klines, i) == klines[i + 1].Close

\* (current - past) / past * 100
Percent(current, past) == FMul(FDiv(current - past, past), F(100))

\* C1 (as claimed): snapshot construction never faults when the candle
\* sequences the fetches returned are non-empty, whatever scanIntervalMinutes
\* is: a runtime fault is only ever preceded by an empty fetched sequence.
C1_NeverFaults ==
    pc = "panic" =>
        \/ io.intraday = "ok" /\ klinesIntraday = <<>>
        \/ io.h4 = "ok" /\ klines4h = <<>>

\* the snapshot GetWithInterval builds from these fetch results
SnapshotOf(oi, rate) ==
    assemble(currentScalars(klinesIntraday, klines4h, scanIntervalMinutes),
             oi, rate, klinesIntraday, klines4h,
             selectInterval(scanIntervalMinutes))

\* C2: once both candle fetches succeeded, a failed open-interest fetch or a
\* failed funding-rate fetch does not abort GetWithInterval: no error is
\* returned, and the snapshot returned has OpenInterest {0, 0} (resp.
\* FundingRate 0) and every other field as it is when that fetch succeeds.
C2_ScalarFetchFailureTolerated ==
    /\ (io.oi = "err" \/ io.fr = "err") =>
          /\ pc \in {"getFundingRate", "assemble", "done"}
          /\ ret.err = Nil
          /\ pc = "done" => ret.data # Nil
    /\ (Returned /\ io.oi = "err") =>
          /\ D.OpenInterest = [Latest |-> 0, Average |-> 0]
          /\ \A oi \in OIValues :
                D = [SnapshotOf(openInterestOf(oi), fundingRate)
                        EXCEPT !.OpenInterest = [Latest |-> 0, Average |-> 0]]
    /\ (Returned /\ io.fr = "err") =>
          /\ D.FundingRate = 0
          /\ \A rate \in FundingValues :
                D = [SnapshotOf(oiData, rate) EXCEPT !.FundingRate = 0]

C2_Witness ==
    /\ Returned
    /\ io.oi = "err"
    /\ io.fr = "ok"
    /\ D.OpenInterest = [Latest |-> 0, Average |-> 0]
    /\ D.FundingRate # 0
    /\ D.CurrentEMA20 # 0
    /\ D.LongerTermContext.ATR14 # 0

\* C3: a failed candle fetch ends GetWithInterval with no snapshot and an
\* error, and the error of a failed intraday fetch differs from every error
\* of a failed 4h fetch (and conversely), whatever scanIntervalMinutes and
\* the fetch's own error are.
C3_CandleFetchFailureIdentified ==
    /\ io.intraday = "err" =>
          /\ pc = "done"
          /\ ret.data = Nil
          /\ ret.err # Nil
          /\ \A e \in FetchErrs : ret.err[1] # err4h(e)
    /\ io.h4 = "err" =>
          /\ pc = "done"
          /\ ret.data = Nil
          /\ ret.err # Nil
          /\ \A scan \in -1 .. 61 : \A e \in FetchErrs :
                ret.err[1] # errIntraday(selectInterval(scan), e)

C3_Witness ==
    /\ pc = "done"
    /\ io.h4 = "err"
    /\ io.intraday = "ok"
    /\ ret.data = Nil
    /\ ret.err # Nil
    /\ ret.err[1][3] = "4"

\* C4 (as claimed): priceChange4h compares the latest 4h close to the
\* previous 4h close.
C4_Latest4hClose ==
    Returned =>
        D.PriceChange4h =
            IF Len(klines4h) >= 2 /\ CloseAt(klines4h, Len(klines4h) - 2) > 0
            THEN Percent(CloseAt(klines4h, Len(klines4h) - 1),
                         CloseAt(klines4h, Len(klines4h) - 2))
            ELSE 0

\* C4 (amended): priceChange4h compares the latest intraday close
\* (currentPrice) to the previous 4h close: with at least 2 candles in the 4h
\* sequence and close4h[len-2] > 0 it is
\* (currentPrice - close4h[len-2]) / close4h[len-2] * 100, and 0 otherwise.
C4_CurrentPriceAgainstPrevious4hClose ==
    Returned =>
        D.PriceChange4h =
            IF Len(klines4h) >= 2 /\ CloseAt(klines4h, Len(klines4h) - 2) > 0
            THEN Percent(CloseAt(klinesIntraday, Len(klinesIntraday) - 1),
                         CloseAt(klines4h, Len(klines4h) - 2))
            ELSE 0

C4_Witness ==
    /\ Returned
    /\ Len(klines4h) >= 2
    /\ CloseAt(klines4h, Len(klines4h) - 2) > 0
    /\ CloseAt(klines4h, Len(klines4h) - 1)
          # CloseAt(klinesIntraday, Len(klinesIntraday) - 1)
    /\ D.PriceChange4h # 0

\* C5: with k = floor(60 / scanIntervalMinutes), priceChange1h of a returned
\* snapshot is (latest - past) / past * 100 when the intraday sequence has
\* at least k + 1 candles and past, the close k candles before the latest,
\* is > 0; it is 0 in every other case.
C5_PriceChange1h ==
    Returned =>
        LET k == 60 \div scanIntervalMinutes
            n == Len(klinesIntraday)
        IN  D.PriceChange1h =
                IF /\ n >= k + 1
                   /\ n - 1 - k \in 0 .. n - 1
                   /\ CloseAt(klinesIntraday, n - 1 - k) > 0
                THEN Percent(CloseAt(klinesIntraday, n - 1),
                             CloseAt(klinesIntraday, n - 1 - k))
                ELSE 0

\* scanIntervalMinutes = 3, 21 candles, close 100 twenty candles ago, latest
\* close 110: priceChange1h is exactly 10
C5_Witness ==
    /\ Returned
    /\ scanIntervalMinutes = 3
    /\ Len(klinesIntraday) = 21
    /\ CloseAt(klinesIntraday, 0) = F(100)
    /\ CloseAt(klinesIntraday, 20) = F(110)
    /\ D.PriceChange1h = F(10)

\* C6: every indicator fails closed on insufficient history, calculateEMA
\* below period candles, calculateMACD below 26, calculateRSI and
\* calculateATR at or below period, and no call reads a candle outside its
\* sequence.
C6_FailClosed ==
    LET n == Len(fnIn.klines)
    IN  /\ (fnOut.fn = "EMA" /\ n < fnIn.period) => fnOut.val = 0
        /\ (fnOut.fn = "MACD" /\ n < 26) => fnOut.val = 0
        /\ (fnOut.fn \in {"RSI", "ATR"} /\ n <= fnIn.period) => fnOut.val = 0
        /\ fnOut.fn \in {"EMA", "MACD", "RSI", "ATR"} =>
              fnOut.reads \subseteq 0 .. n - 1

C6_Witness ==
    /\ fnOut.fn = "RSI"
    /\ Len(fnIn.klines) = fnIn.period
    /\ \E i \in 1 .. Len(fnIn.klines) - 1 :
          CloseAt(fnIn.klines, i) > CloseAt(fnIn.klines, i - 1)
    /\ fnOut.val = 0

Reverse(q) == [j \in 1 .. Len(q) |-> q[Len(q) + 1 - j]]

\* the close-to-close deltas at indices lo .. len-1 are all non-negative
NoLossFrom(klines, lo) ==
    \A i \in lo .. Len(klines) - 1 :
        CloseAt(klines, i) - CloseAt(klines, i - 1) >= 0

\* C7 (as claimed): calculateRSI returns 100 whenever no delta after the
\* seed period is negative.
C7_NoLossAfterSeed ==
    (/\ fnOut.fn = "RSI"
     /\ Len(fnIn.klines) > fnIn.period
     /\ NoLossFrom(fnIn.klines, fnIn.period + 1)) => fnOut.val = F(100)

\* C7 (amended): calculateRSI returns exactly 100 whenever no close-to-close
\* delta of the sequence, the seed period included, is negative.
C7_NoLossAtAll ==
    (/\ fnOut.fn = "RSI"
     /\ Len(fnIn.klines) > fnIn.period
     /\ NoLossFrom(fnIn.klines, 1)) => fnOut.val = F(100)

C7_Witness ==
    /\ fnOut.fn = "RSI"
    /\ Len(fnIn.klines) > fnIn.period + 1
    /\ NoLossFrom(fnIn.klines, 1)
    /\ ~ NoLossFrom(Reverse(fnIn.klines), 1)
    /\ fnOut.val = F(100)

\* the value of a named indicator over a non-empty prefix q
IndicatorOf(indicator, q) ==
    CASE indicator = "Mid"   -> CloseAt(q, Len(q) - 1)
      [] indicator = "EMA20" -> calculateEMA(q, 20)
      [] indicator = "MACD"  -> calculateMACD(q)
      [] indicator = "RSI7"  -> calculateRSI(q, 7)
      [] indicator = "RSI14" -> calculateRSI(q, 14)

\* the points a sampler owes for a sequence: one for each index i of the
\* trailing window [max(0, N-10), N-1] with i >= threshold, in ascending i,
\* the indicator of the prefix klines[0..i]
PointsFrom(klines, threshold, indicator) ==
    LET lo == Max(Max(0, Len(klines) - 10), threshold)
    IN  [j \in 1 .. Len(klines) - lo |->
            IndicatorOf(indicator, Prefix(klines, lo + j))]

\* every point of a series, right-aligned to the latest candle, is computed
\* from a prefix of at least minLen candles
NoShortPrefix(klines, series, minLen) ==
    \A j \in DOMAIN series : (Len(klines) - Len(series) + j - 1) + 1 >= minLen

\* the series of a sampler are exactly the points owed with these thresholds
SeriesGatedAt(ema20From, macdFrom, rsi7From, rsi14From) ==
    LET klines == fnIn.klines
        out == fnOut.val
    IN  /\ fnOut.fn = "IntradaySeries" =>
              /\ out.MidPrices = PointsFrom(klines, 0, "Mid")
              /\ out.EMA20Values = PointsFrom(klines, ema20From, "EMA20")
              /\ out.MACDValues = PointsFrom(klines, macdFrom, "MACD")
              /\ out.RSI7Values = PointsFrom(klines, rsi7From, "RSI7")
              /\ out.RSI14Values = PointsFrom(klines, rsi14From, "RSI14")
              /\ NoShortPrefix(klines, out.EMA20Values, 20)
              /\ NoShortPrefix(klines, out.MACDValues, 26)
              /\ NoShortPrefix(klines, out.RSI7Values, 7 + 1)
              /\ NoShortPrefix(klines, out.RSI14Values, 14 + 1)
        /\ fnOut.fn = "LongerTermData" =>
              /\ out.MACDValues = PointsFrom(klines, macdFrom, "MACD")
              /\ out.RSI14Values = PointsFrom(klines, rsi14From, "RSI14")
              /\ NoShortPrefix(klines, out.MACDValues, 26)
              /\ NoShortPrefix(klines, out.RSI14Values, 14 + 1)

\* C8 (as claimed): the series hold one point for exactly the window indices
\* i >= P-1 (19 for EMA20, 6 for RSI7, 13 for RSI14) and i >= 25 for MACD.
C8_GatedAtPeriodMinusOne == SeriesGatedAt(19, 25, 6, 13)

\* C8 (amended): for a sequence of length N each trailing series holds one
\* point for exactly the indices i of [max(0, N-10), N-1] with i >= 19
\* (EMA20), i >= 25 (MACD), i >= 7 (RSI7), i >= 14 (RSI14), in ascending i;
\* the mid prices are never gated; no point comes from an under-length
\* prefix.
C8_GatedAtCodeThresholds == SeriesGatedAt(19, 25, 7, 14)

C8_Witness ==
    /\ fnOut.fn = "IntradaySeries"
    /\ Len(fnIn.klines) = 22
    /\ Len(fnOut.val.MidPrices) = 10
    /\ Len(fnOut.val.EMA20Values) = 3
    /\ fnOut.val.MACDValues = <<>>
    /\ Len(fnOut.val.RSI7Values) = 10
    /\ Len(fnOut.val.RSI14Values) = 8
    /\ \A j \in 1 .. 3 : fnOut.val.EMA20Values[j] # 0

\* minutes between two candles of an interval label
minutesOf(label) ==
    CASE label = "1m"  -> 1
      [] label = "3m"  -> 3
      [] label = "5m"  -> 5
      [] label = "15m" -> 15
      [] label = "30m" -> 30
      [] label = "1h"  -> 60

\* C9 (as claimed): for scanIntervalMinutes in 1..60 the bar spacing of the
\* fetched intraday candles equals scanIntervalMinutes, and the lookback of
\* priceChange1h, floor(60/scanIntervalMinutes) bars, spans 60 minutes.
C9_BarSpacingIsScanInterval ==
    (pc \in {"getKlines4h", "compute"} /\ scanIntervalMinutes \in 1 .. 60) =>
        /\ minutesOf(interval) = scanIntervalMinutes
        /\ barsFor1h(scanIntervalMinutes) * minutesOf(interval) = 60

Last(series) == series[Len(series)]

\* C10: in every returned snapshot MidPrices has 1 to 10 points and ends
\* with CurrentPrice; each of EMA20Values, MACDValues, RSI7Values ends with
\* the current scalar when it is non-empty, and the current scalar is 0 when
\* it is empty.
C10_ScalarsAgreeWithSeries ==
    Returned =>
        LET series == D.IntradaySeries
        IN  /\ Len(series.MidPrices) \in 1 .. 10
            /\ Last(series.MidPrices) = D.CurrentPrice
            /\ IF series.EMA20Values # <<>>
               THEN Last(series.EMA20Values) = D.CurrentEMA20
               ELSE D.CurrentEMA20 = 0
            /\ IF series.MACDValues # <<>>
               THEN Last(series.MACDValues) = D.CurrentMACD
               ELSE D.CurrentMACD = 0
            /\ IF series.RSI7Values # <<>>
               THEN Last(series.RSI7Values) = D.CurrentRSI7
               ELSE D.CurrentRSI7 = 0

C10_Witness ==
    /\ Returned
    /\ Len(D.IntradaySeries.MidPrices) = 10
    /\ D.IntradaySeries.EMA20Values # <<>>
    /\ D.IntradaySeries.MACDValues = <<>>
    /\ D.CurrentEMA20 # 0
    /\ D.CurrentMACD = 0
    /\ D.CurrentRSI7 # 0

====
